---- MODULE Spec2Model ----
(***************************************************************************)
(* A model of "Week 2/model2_1.py": the tensor-product helper tp, the      *)
(* module constants, the Hamiltonian assembled at module level, the class  *)
(* Model (its constructor and its four queries) and the module-level       *)
(* script that drives them.                                                *)
(*                                                                         *)
(* Numbers.  The program computes in complex floating point.  The model    *)
(* computes exactly: a complex number is a pair <<re, im>> of integers, a  *)
(* matrix is a sequence of rows.  Energies are integers in a unit in which *)
(* the reduced Planck constant is hbar.  Times are integers in the unit    *)
(* hbar * pi/2, so the argument of every cosine is a multiple of pi/2.     *)
(* An eigenvector matrix M is kept unnormalised, with the common squared   *)
(* norm k of its columns beside it (the program's M is M / sqrt(k)); the   *)
(* amplitude matrix is kept as integer numerators over one denominator.    *)
(***************************************************************************)
EXTENDS Integers, Sequences, FiniteSets, TLC

VARIABLES
    I, sigma_x, sigma_z, S,   \* the module constants (lines 18-40)
    compare,                  \* the comparison flag (line 141)
    m, m2,                    \* the module-level instances: <<>> or <<model>>
    call,                     \* the call made last: operation, receiver, arguments
    err,                      \* the exception the last call raised, or "none"
    out,                      \* what the last call returned, printed or drew
    C, C2, H, H2,             \* the coupling weights and the Hamiltonians built from them
    args, result              \* tp's operands and its result

vars == <<I, sigma_x, sigma_z, S, compare, m, m2, call, err, out, C, C2, H, H2, args, result>>

-----------------------------------------------------------------------------
(* Bounds of the model.                                                    *)

\* The largest particle count handed to Model.
MaxParticles == 3
\* The largest time (in units of hbar * pi/2) polarisation is evaluated at.
MaxTime == 2
\* The largest coupling weight the Hamiltonian is assembled with.
MaxWeight == 10
\* The largest number of operands handed to tp.
MaxOperands == 3

-----------------------------------------------------------------------------
(* Complex numbers and matrices.                                           *)

\* scipy.constants.hbar, in the model's energy unit.
hbar == 4

CZero == <<0, 0>>
CAdd(a, b) == <<a[1] + b[1], a[2] + b[2]>>
CSub(a, b) == <<a[1] - b[1], a[2] - b[2]>>
CMul(a, b) == <<a[1] * b[1] - a[2] * b[2], a[1] * b[2] + a[2] * b[1]>>
CConj(a) == <<a[1], -a[2]>>
CScale(c, a) == <<c * a[1], c * a[2]>>
\* np.abs(z)**2
Abs2(a) == a[1] * a[1] + a[2] * a[2]

\* A sequence written as a function of its index, as the tuple of its values.
Tuple(f) == f \o <<>>

Rows(a) == Len(a)
Cols(a) == Len(a[1])
IsSquare(a) == Rows(a) = Cols(a)

MatScale(c, a) ==
    Tuple([i \in 1..Rows(a) |-> Tuple([j \in 1..Cols(a) |-> CScale(c, a[i][j])])])
MatAdd(a, b) ==
    Tuple([i \in 1..Rows(a) |-> Tuple([j \in 1..Cols(a) |-> CAdd(a[i][j], b[i][j])])])
MatSub(a, b) ==
    Tuple([i \in 1..Rows(a) |-> Tuple([j \in 1..Cols(a) |-> CSub(a[i][j], b[i][j])])])
\* The entries of a divided by d (the model's weights make the division exact).
MatDiv(a, d) ==
    Tuple([i \in 1..Rows(a) |->
        Tuple([j \in 1..Cols(a) |-> <<a[i][j][1] \div d, a[i][j][2] \div d>>])])

\* The terms 1, ..., k of entry (i, j) of a @ b.
RECURSIVE DotFrom(_, _, _, _, _)
DotFrom(a, b, i, j, k) ==
    IF k = 0 THEN CZero
    ELSE CAdd(CMul(a[i][k], b[k][j]), DotFrom(a, b, i, j, k - 1))

\* a @ b for matrices whose shapes agree.
MatMul(a, b) ==
    Tuple([i \in 1..Rows(a) |-> Tuple([j \in 1..Cols(b) |-> DotFrom(a, b, i, j, Cols(a))])])

\* adj: the conjugate transpose.
adj(a) == Tuple([j \in 1..Cols(a) |-> Tuple([i \in 1..Rows(a) |-> CConj(a[i][j])])])

\* np.kron(a, b)
kron(a, b) ==
    Tuple([r \in 1..(Rows(a) * Rows(b)) |->
        Tuple([c \in 1..(Cols(a) * Cols(b)) |->
            CMul(a[((r - 1) \div Rows(b)) + 1][((c - 1) \div Cols(b)) + 1],
                 b[((r - 1) % Rows(b)) + 1][((c - 1) % Cols(b)) + 1])])])

RECURSIVE tpLoop(_, _)
tpLoop(acc, rest) ==
    IF rest = <<>> THEN acc ELSE tpLoop(kron(acc, Head(rest)), Tail(rest))

\* A variant of tp that multiplies each operand on from the left.
RECURSIVE tpLoopReversed(_, _)
tpLoopReversed(acc, rest) ==
    IF rest = <<>> THEN acc ELSE tpLoopReversed(kron(Head(rest), acc), Tail(rest))

tpReversed(operands) == tpLoopReversed(operands[1], Tail(operands))

\* tp(*args) for at least one operand; args[0] raises IndexError for none,
\* which TpCall records.
tp(operands) == tpLoop(operands[1], Tail(operands))

\* [t] * count: a list repeated, empty when count <= 0.
Repeat(t, count) == Tuple([x \in 1..(IF count > 0 THEN count ELSE 0) |-> t])

RECURSIVE Pow2(_)
\* 2**e for e >= 0
Pow2(e) == IF e = 0 THEN 1 ELSE 2 * Pow2(e - 1)

\* np.round(num / den), den > 0: to the nearest integer, a tie to the even one.
Round(num, den) ==
    LET q == num \div den
        r == num % den
    IN  IF 2 * r < den THEN q
        ELSE IF 2 * r > den THEN q + 1
        ELSE IF q % 2 = 0 THEN q ELSE q + 1

Abs(x) == IF x < 0 THEN -x ELSE x

RealMat(rows) ==
    Tuple([i \in 1..Len(rows) |-> Tuple([j \in 1..Len(rows[i]) |-> <<rows[i][j], 0>>])])

\* The Pauli matrices the module constants are written from (lines 18-39).
eye2 == RealMat(<<<<1, 0>>, <<0, 1>>>>)
pauli_x == RealMat(<<<<0, 1>>, <<1, 0>>>>)
pauli_y == <<<<(<<0, 0>>), (<<0, -1>>)>>, <<(<<0, 1>>), (<<0, 0>>)>>>>
pauli_z == RealMat(<<<<1, 0>>, <<0, -1>>>>)

-----------------------------------------------------------------------------
(* numpy.linalg.eigh.  The library is not part of the repository; the      *)
(* model states what it returns.  A matrix that is not square raises       *)
(* LinAlgError.  Otherwise only the lower triangle is read (UPLO = 'L'),   *)
(* the upper one is taken to be its conjugate, and the result is the       *)
(* eigenvalues in ascending order with an orthonormal eigenvector to each, *)
(* as the columns of M.  Where an eigenvalue is degenerate the library may *)
(* return any orthonormal basis of its eigenspace: the model lets it       *)
(* return any of the product bases below that diagonalises the matrix.     *)

\* The Hermitian matrix eigh reads out of h's lower triangle.
LowerHermitian(h) ==
    Tuple([i \in 1..Rows(h) |-> Tuple([j \in 1..Rows(h) |->
        IF i >= j THEN h[i][j] ELSE CConj(h[j][i])])])

\* Eigenbases of one spin: of sigma_z, of sigma_x, of sigma_y, and of the
\* symmetric matrices with eigenvectors (2, 1) and (-1, 2).
SpinBases ==
    { eye2,
      RealMat(<<<<1, 1>>, <<1, -1>>>>),
      <<<<(<<1, 0>>), (<<1, 0>>)>>, <<(<<0, 1>>), (<<0, -1>>)>>>>,
      RealMat(<<<<2, -1>>, <<1, 2>>>>) }

IdentityMat(dim) ==
    Tuple([i \in 1..dim |-> Tuple([j \in 1..dim |-> IF i = j THEN <<1, 0>> ELSE CZero])])

\* The product bases of two and of three spins.
PairBases == { kron(a, b) : a \in SpinBases, b \in SpinBases }
TripleBases == { kron(a, b) : a \in SpinBases, b \in PairBases }

\* The bases eigh chooses among: the product bases of a space of dimension
\* 2, 4 or 8; for any other dimension, the standard basis alone.
ProductBases(dim) ==
    CASE dim = 2 -> SpinBases
      [] dim = 4 -> PairBases
      [] dim = 8 -> TripleBases
      [] OTHER -> { IdentityMat(dim) }

RECURSIVE Norm2From(_, _, _)
Norm2From(b, c, r) == IF r = 0 THEN 0 ELSE Norm2From(b, c, r - 1) + Abs2(b[r][c])

\* What eigh returns when the columns of b are eigenvectors of l: the set
\* holding that decomposition, with the eigenvalues sorted; else no decomposition.
Decompose(l, b) ==
    LET dim == Rows(l)
        first(c) == CHOOSE r \in 1..dim :
                        b[r][c] # CZero /\ \A q \in 1..(r - 1) : b[q][c] = CZero
        lb(r, c) == DotFrom(l, b, r, c, dim)
        quot(c) == CMul(lb(first(c), c), CConj(b[first(c)][c]))
        den(c) == Abs2(b[first(c)][c])
        isEigen(c) ==
            /\ quot(c)[2] = 0
            /\ quot(c)[1] % den(c) = 0
            /\ \A r \in 1..dim : lb(r, c) = CScale(quot(c)[1] \div den(c), b[r][c])
    IN  IF \A c \in 1..dim : isEigen(c)
        THEN LET lambda == Tuple([c \in 1..dim |-> quot(c)[1] \div den(c)])
                 place == Tuple([c \in 1..dim |->
                            Cardinality({d \in 1..dim :
                                lambda[d] < lambda[c] \/ (lambda[d] = lambda[c] /\ d < c)}) + 1])
                 column == Tuple([p \in 1..dim |-> CHOOSE c \in 1..dim : place[c] = p])
             IN  {[ energies |-> Tuple([p \in 1..dim |-> lambda[column[p]]]),
                    M |-> Tuple([r \in 1..dim |-> Tuple([p \in 1..dim |-> b[r][column[p]]])]),
                    k |-> Norm2From(b, 1, dim) ]}
        ELSE {}

\* eigh(h) for a square h: the decompositions it may return.
eigh(h) ==
    UNION { Decompose(LowerHermitian(h), b) : b \in ProductBases(Rows(h)) }

-----------------------------------------------------------------------------
(* class Model                                                             *)

\* 1e-8, the significance threshold, as 1 / ThresholdInv.
ThresholdInv == 100000000

\* num / den > 1e-8, for integers num and den > 0.
AboveThreshold(num, den) == num > den \div ThresholdInv

\* The shapes of adj(M) @ T @ M agree.
ShapesAgree(M, T) == Rows(M) = Rows(T) /\ Cols(T) = Rows(M)

\* tp(first, *[I]*(particle_count-1)) (lines 46-47)
FirstSpin(first, identity, particle_count) ==
    tp(<<first>> \o Repeat(identity, particle_count - 1))

\* A variant of Rotated that leaves out the second factor M.
RotatedHalf(M, T) == MatMul(adj(M), T)

\* adj(self.M) @ T @ self.M, times k (lines 46-47).
Rotated(M, T) == MatMul(MatMul(adj(M), T), M)

\* The numerators of transition_amplitude_matrix (lines 45-48), over AmplitudeDen.
Amplitudes(M, TX, TZ) ==
    LET X == Rotated(M, TX)
        Z == Rotated(M, TZ)
    IN  Tuple([i \in 1..Rows(M) |->
            Tuple([j \in 1..Rows(M) |-> 2 * Abs2(X[i][j]) + Abs2(Z[i][j])])])

\* The denominator of the amplitudes: 3 * 2**particle_count, and k * k for the
\* two unnormalised factors M in each matrix element.
AmplitudeDen(k, particle_count) == 3 * Pow2(particle_count) * k * k

\* Model.__init__ after eigh returned dec, with the module constants as given:
\* the exception it raises, or "none" and the instance.
ModelInitWith(sx, sz, identity, dec, particle_count) ==
    IF ~ShapesAgree(dec.M, FirstSpin(sx, identity, particle_count))
    THEN [err |-> "ValueError", self |-> <<>>]
    ELSE [err |-> "none",
          self |-> <<[ energies |-> dec.energies,
                       M |-> dec.M,
                       k |-> dec.k,
                       transition_amplitude_matrix |->
                           Amplitudes(dec.M, FirstSpin(sx, identity, particle_count),
                                      FirstSpin(sz, identity, particle_count)),
                       amplitude_den |-> AmplitudeDen(dec.k, particle_count),
                       rounded_frequencies |->
                           Tuple([i \in 1..Len(dec.energies) |->
                                     Round(dec.energies[i], hbar)]) ]>>]

\* cos(x * pi/2) for an integer x.
CosQuarter(x) == CASE x % 4 = 0 -> 1 [] x % 4 = 2 -> -1 [] OTHER -> 0

\* frequency_matrix[i, j] times hbar (lines 92, 100).
FrequencyNum(self, i, j) == Abs(self.energies[i] - self.energies[j])

\* A variant of PolarisationTerm that counts only the transitions i # j.
PolarisationTermOffDiagonal(self, i, j, t) ==
    IF i = j THEN 0
    ELSE self.transition_amplitude_matrix[i][j] * CosQuarter(FrequencyNum(self, i, j) * t)

\* One term of the sum of line 94, for one time t (in units of hbar * pi/2).
PolarisationTerm(self, i, j, t) ==
    self.transition_amplitude_matrix[i][j] * CosQuarter(FrequencyNum(self, i, j) * t)

\* The terms of (i, 1), ..., (i, j).
RECURSIVE PolarisationRow(_, _, _, _)
PolarisationRow(self, t, i, j) ==
    IF j = 0 THEN 0
    ELSE PolarisationRow(self, t, i, j - 1) + PolarisationTerm(self, i, j, t)

\* The terms of the rows 1, ..., i: the sum of lines 93-96 runs "for i in
\* range(N) for j in range(N)".
RECURSIVE PolarisationFrom(_, _, _)
PolarisationFrom(self, t, i) ==
    IF i = 0 THEN 0
    ELSE PolarisationFrom(self, t, i - 1) + PolarisationRow(self, t, i, Len(self.energies))

\* Model.polarisation: one value per time of ts, as a numerator over amplitude_den.
polarisation(self, ts) ==
    Tuple([x \in 1..Len(ts) |-> PolarisationFrom(self, ts[x], Len(self.energies))])

\* A variant of Accumulate that stores the amplitude over the last one.
AccumulateOverwrite(d, f, a) == a

\* cos_amplitudes.get(f, 0) + a (lines 106-107)
Accumulate(d, f, a) == (IF f \in DOMAIN d THEN d[f] ELSE 0) + a

\* cos_amplitudes d after the passes (i, 1), ..., (i, j) of the inner loop.
RECURSIVE CosAmplitudesRow(_, _, _, _)
CosAmplitudesRow(self, d, i, j) ==
    IF j = 0 THEN d
    ELSE LET before == CosAmplitudesRow(self, d, i, j - 1)
             f == Round(FrequencyNum(self, i, j), hbar)
             a == Accumulate(before, f, self.transition_amplitude_matrix[i][j])
         IN  (f :> a) @@ before

\* cos_amplitudes after the passes 1, ..., i of the outer loop (lines 102-107):
\* empty before the first (line 102), and what the earlier passes left, which
\* is computed before pass i is entered.
RECURSIVE CosAmplitudesFrom(_, _)
CosAmplitudesFrom(self, i) ==
    IF i = 0 THEN <<>>
    ELSE LET before == CosAmplitudesFrom(self, i - 1)
         IN  IF before = <<>>
             THEN CosAmplitudesRow(self, <<>>, i, Len(self.energies))
             ELSE CosAmplitudesRow(self, before, i, Len(self.energies))

\* Model.plot_cosine_amplitudes: the dictionary it draws one line per entry of.
plot_cosine_amplitudes(self) == CosAmplitudesFrom(self, Len(self.energies))

\* Lines 126-127: the pair with the smaller level first.
Canonical(a, b) == IF a > b THEN <<b, a>> ELSE <<a, b>>

\* A variant of Significant that lets every amplitude pass.
SignificantAny(self, i, j) == self.transition_amplitude_matrix[i][j] >= 0

\* Line 123: the amplitude of (i, j) is above the threshold.
Significant(self, i, j) ==
    AboveThreshold(self.transition_amplitude_matrix[i][j], self.amplitude_den)

\* Model.plot_energy_levels: the levels and the transitions it draws.
plot_energy_levels(self) ==
    LET dim == Len(self.energies)
        rounded_frequencies == Tuple([i \in 1..dim |-> Round(self.energies[i], hbar)])
        pairs == { Canonical(rounded_frequencies[q[1]], rounded_frequencies[q[2]]) :
                     q \in { r \in (1..dim) \X (1..dim) : Significant(self, r[1], r[2]) } }
    IN  [ frequency_levels |-> {rounded_frequencies[i] : i \in 1..dim},
          transitions |-> { ab \in pairs : ab[1] # ab[2] } ]

\* Lines 55-58, times hbar: S_muon + S_fluorine1 + S_fluorine2, per axis.
JNum(spin, identity, axis) ==
    MatAdd(MatAdd(tp(<<spin[axis], identity, identity>>), tp(<<identity, spin[axis], identity>>)),
           tp(<<identity, identity, spin[axis]>>))

\* Line 59, times hbar * hbar.
J2Num(spin, identity) ==
    MatAdd(MatAdd(MatMul(JNum(spin, identity, 1), JNum(spin, identity, 1)),
                  MatMul(JNum(spin, identity, 2), JNum(spin, identity, 2))),
           MatMul(JNum(spin, identity, 3), JNum(spin, identity, 3)))

\* M[:, i], as a matrix of one column.
Column(M, i) == Tuple([r \in 1..Rows(M) |-> <<M[r][i]>>])

\* (adj(M[:, i]) @ op @ M[:, i]).real.round(2), in hundredths, for column i of
\* owner's M; op is given as numerators over den.
Expectation(owner, i, op, den) ==
    LET v == Column(owner.M, i)
        value == MatMul(MatMul(adj(v), op), v)[1][1]
    IN  Round(100 * value[1], owner.k * den)

\* int(np.log2(N))
RECURSIVE Log2Floor(_)
Log2Floor(x) == IF x < 2 THEN 0 ELSE 1 + Log2Floor(x \div 2)

\* Lines 76-82: the sign printed for an entry of M (an integer over sqrt(k), so
\* above 1e-8 exactly when positive; complex entries compare by their real part).
SignOf(entry) == IF entry[1] > 0 THEN "+" ELSE IF entry[1] < 0 THEN "-" ELSE " "

\* The instance the labels of rows i of print_details are computed in:
\* lines 85-86 read the module-level m.
LabelOwner(self) == m[1]

-----------------------------------------------------------------------------
(* The Hamiltonians Model is constructed from.                             *)

\* weight * tp(*factors)
Term(weight, factors) == MatScale(weight, tpLoop(factors[1], Tail(factors)))

\* Hermitian matrices of one, two and three spins, and a diagonal matrix
\* whose dimension is no power of two.
HermitianInputs ==
    { Term(w, <<p>>) : w \in 1..3, p \in {pauli_x, pauli_y, pauli_z} }
    \cup { RealMat(<<<<1, 2>>, <<2, -2>>>>), RealMat(<<<<6, -2>>, <<-2, 9>>>>) }
    \cup { MatAdd(Term(2, <<pauli_z, pauli_z>>), Term(1, <<pauli_z, eye2>>)),
           MatAdd(Term(1, <<pauli_x, pauli_x>>), Term(2, <<pauli_x, eye2>>)),
           Term(3, <<pauli_y, pauli_z>>),
           Term(1, <<eye2, pauli_z>>),
           MatAdd(Term(1, <<RealMat(<<<<1, 2>>, <<2, -2>>>>), eye2>>),
                  Term(5, <<eye2, pauli_x>>)) }
    \cup { MatAdd(Term(1, <<pauli_z, pauli_z, eye2>>), Term(2, <<pauli_z, eye2, pauli_z>>)),
           MatAdd(Term(1, <<pauli_x, pauli_x, eye2>>), Term(2, <<pauli_x, eye2, pauli_x>>)),
           MatAdd(Term(3, <<pauli_y, pauli_z, eye2>>), Term(1, <<eye2, pauli_z, pauli_x>>)),
           MatAdd(MatAdd(Term(4, <<pauli_z, eye2, eye2>>), Term(2, <<eye2, pauli_z, eye2>>)),
                  Term(1, <<eye2, eye2, pauli_z>>)),
           MatAdd(MatAdd(Term(4, <<pauli_x, eye2, eye2>>), Term(2, <<eye2, pauli_x, eye2>>)),
                  Term(1, <<eye2, eye2, pauli_x>>)) }
    \cup { RealMat(<<<<1, 0, 0>>, <<0, 2, 0>>, <<0, 0, 5>>>>) }

\* Square matrices that differ from their conjugate transpose.
NonHermitianInputs ==
    { RealMat(<<<<0, 1>>, <<3, 0>>>>),
      RealMat(<<<<1, 5>>, <<2, -2>>>>),
      <<<<(<<0, 0>>), (<<0, 1>>)>>, <<(<<0, 1>>), (<<0, 0>>)>>>>,
      MatAdd(Term(1, <<pauli_z, pauli_z>>),
             RealMat(<<<<0, 0, 0, 7>>, <<0, 0, 0, 0>>, <<0, 0, 0, 0>>, <<0, 0, 0, 0>>>>)) }

\* Matrices that are not square.
NonSquareInputs ==
    { RealMat(<<<<1, 2>>>>),
      RealMat(<<<<1>>, <<2>>>>),
      RealMat(<<<<1, 0, 0, 0>>, <<0, 2, 0, 0>>>>) }

Hamiltonians == HermitianInputs \cup NonHermitianInputs \cup NonSquareInputs

SquareInputs == { h \in Hamiltonians : IsSquare(h) }

IsHermitian(h) == IsSquare(h) /\ h = adj(h)

\* np.arange(0, stop, 1), in units of hbar * pi/2 (line 181 is one such grid).
TimeGrids == { Tuple([x \in 1..stop |-> x - 1]) : stop \in 0..(MaxTime + 1) }

Instances == {"m", "m2"}
Self(inst) == IF inst = "m" THEN m[1] ELSE m2[1]
Exists(inst) == IF inst = "m" THEN m # <<>> ELSE m2 # <<>>

-----------------------------------------------------------------------------
(* The module constants, and what is computed from them.                   *)

\* A variant of spin_vector whose y component lacks the j of one entry.
spin_vector_typo ==
    <<MatScale(hbar \div 2, pauli_x),
      MatScale(hbar \div 2, <<<<(<<0, 0>>), (<<0, -1>>)>>, <<(<<1, 0>>), (<<0, 0>>)>>>>),
      MatScale(hbar \div 2, pauli_z)>>

\* S as lines 27-40 set it: (hbar/2) times the three Pauli matrices.
spin_vector == <<MatScale(hbar \div 2, pauli_x), MatScale(hbar \div 2, pauli_y),
                 MatScale(hbar \div 2, pauli_z)>>

\* eigh(h) for each square input, computed once.
EighTable == [h \in SquareInputs |-> eigh(h)]

\* Model.__init__ after eigh returned dec (lines 45-49).
ModelInit(dec, particle_count) == ModelInitWith(sigma_x, sigma_z, I, dec, particle_count)

\* J2 and Jz (lines 55-60) of the constants as lines 18-40 set them, computed once.
J2Set == J2Num(spin_vector, eye2)
JzSet == JNum(spin_vector, eye2, 3)

\* Model.print_details: what it prints, and the exception that ends it.  The
\* i-th label needs column i of the owner's M (IndexError when there is none)
\* and the owner's dimension to be that of J2 (ValueError when it is not).
print_details(self) ==
    LET dim == Len(self.energies)
        particle_count == Log2Floor(dim)
        owner == LabelOwner(self)
        J2 == IF <<S, I>> = <<spin_vector, eye2>> THEN J2Set ELSE J2Num(S, I)
        Jz == IF <<S, I>> = <<spin_vector, eye2>> THEN JzSet ELSE JNum(S, I, 3)
        failsAt == IF Rows(owner.M) # Rows(J2) THEN 1
                   ELSE IF dim > Rows(owner.M) THEN Rows(owner.M) + 1
                   ELSE 0
        printed == IF failsAt = 0 THEN dim ELSE failsAt - 1
    IN  [ err |-> IF failsAt = 0 THEN "none"
                  ELSE IF Rows(owner.M) # Rows(J2) THEN "ValueError" ELSE "IndexError",
          header |-> Tuple([i \in 1..dim |-> Tuple([b \in 1..particle_count |->
                        IF ((i - 1) \div Pow2(particle_count - b)) % 2 = 0
                        THEN "up" ELSE "down"])]),
          signs |-> Tuple([i \in 1..(IF failsAt = 0 THEN dim ELSE failsAt) |->
                        Tuple([j \in 1..dim |-> SignOf(self.M[j][i])])]),
          labels |-> Tuple([i \in 1..printed |->
                        [ jj1 |-> Expectation(owner, i, J2, hbar * hbar),
                          jz |-> Expectation(owner, i, Jz, hbar),
                          E |-> self.rounded_frequencies[i] ]]) ]

-----------------------------------------------------------------------------
(* The state after the module constants are set (lines 18-40, 141).        *)

ModuleLoaded ==
    /\ I = eye2
    /\ sigma_x = pauli_x
    /\ sigma_z = pauli_z
    /\ S = spin_vector
    /\ compare \in BOOLEAN
    /\ m = <<>>
    /\ m2 = <<>>
    /\ call = [op |-> "none", inst |-> "none", arg |-> <<>>]
    /\ err = "none"
    /\ out = <<>>
    /\ C = 0
    /\ C2 = 0
    /\ H = <<>>
    /\ H2 = <<>>
    /\ result = <<>>

Init == ModuleLoaded /\ args = <<>>

globals == <<I, sigma_x, sigma_z, S, compare>>
builder == <<C, C2, H, H2>>
tensor == <<args, result>>

\* m = Model(h, particle_count) (line 164), for any matrix and any particle
\* count from 0 on.  An exception leaves m unbound and, as no line catches it,
\* ends the program: no action follows one.
Construct ==
    /\ err = "none"
    /\ m = <<>>
    /\ \E h \in Hamiltonians, particle_count \in 0..MaxParticles :
        /\ call' = [op |-> "Model", inst |-> "m", arg |-> <<h, particle_count>>]
        /\ IF ~IsSquare(h)
           THEN err' = "LinAlgError" /\ m' = <<>>
           ELSE \E dec \in EighTable[h] :
                    /\ err' = ModelInit(dec, particle_count).err
                    /\ m' = ModelInit(dec, particle_count).self
    /\ out' = <<>>
    /\ UNCHANGED <<m2, globals, builder, tensor>>

\* m2 = Model(h, particle_count) in comparison mode (lines 168-178): a second
\* Hamiltonian of the same spins as m's.
ConstructCompared ==
    /\ err = "none"
    /\ compare
    /\ m # <<>>
    /\ m2 = <<>>
    /\ \E h \in { x \in SquareInputs : Rows(x) = Len(m[1].energies) } :
        /\ call' = [op |-> "Model", inst |-> "m2", arg |-> <<h, Log2Floor(Rows(h))>>]
        /\ \E dec \in EighTable[h] :
                /\ err' = ModelInit(dec, Log2Floor(Rows(h))).err
                /\ m2' = ModelInit(dec, Log2Floor(Rows(h))).self
    /\ out' = <<>>
    /\ UNCHANGED <<m, globals, builder, tensor>>

\* A variant of Polarisation that weighs the amplitude matrix in place, by the
\* cosines of the last time of ts.
PolarisationInPlace(inst) ==
    /\ err = "none"
    /\ Exists(inst)
    /\ \E ts \in TimeGrids :
        /\ call' = [op |-> "polarisation", inst |-> inst, arg |-> ts]
        /\ out' = polarisation(Self(inst), ts)
        /\ LET self == Self(inst)
               dim == Len(self.energies)
               weighed == IF ts = <<>> THEN self
                          ELSE [self EXCEPT !.transition_amplitude_matrix =
                                    Tuple([i \in 1..dim |-> Tuple([j \in 1..dim |->
                                        PolarisationTerm(self, i, j, ts[Len(ts)])])])]
           IN  IF inst = "m" THEN m' = <<weighed>> /\ UNCHANGED m2
               ELSE m2' = <<weighed>> /\ UNCHANGED m
    /\ err' = "none"
    /\ UNCHANGED <<globals, builder, tensor>>

\* inst.polarisation(ts) (lines 183, 187)
Polarisation(inst) ==
    /\ err = "none"
    /\ Exists(inst)
    /\ \E ts \in TimeGrids :
        /\ call' = [op |-> "polarisation", inst |-> inst, arg |-> ts]
        /\ out' = polarisation(Self(inst), ts)
    /\ err' = "none"
    /\ UNCHANGED <<m, m2, globals, builder, tensor>>

\* inst.plot_energy_levels(ax) (lines 192, 195)
PlotEnergyLevels(inst) ==
    /\ err = "none"
    /\ Exists(inst)
    /\ call' = [op |-> "plot_energy_levels", inst |-> inst, arg |-> <<>>]
    /\ out' = plot_energy_levels(Self(inst))
    /\ err' = "none"
    /\ UNCHANGED <<m, m2, globals, builder, tensor>>

\* inst.plot_cosine_amplitudes(ax) (lines 198, 200)
PlotCosineAmplitudes(inst) ==
    /\ err = "none"
    /\ Exists(inst)
    /\ call' = [op |-> "plot_cosine_amplitudes", inst |-> inst, arg |-> <<>>]
    /\ out' = plot_cosine_amplitudes(Self(inst))
    /\ err' = "none"
    /\ UNCHANGED <<m, m2, globals, builder, tensor>>

\* inst.print_details() (lines 166, 179)
PrintDetails(inst) ==
    /\ err = "none"
    /\ Exists(inst)
    /\ call' = [op |-> "print_details", inst |-> inst, arg |-> <<>>]
    /\ LET printed == print_details(Self(inst))
       IN  /\ out' = [header |-> printed.header, signs |-> printed.signs,
                      labels |-> printed.labels]
           /\ err' = printed.err
    /\ UNCHANGED <<m, m2, globals, builder, tensor>>

Next ==
    \/ Construct
    \/ ConstructCompared
    \/ \E inst \in Instances :
        \/ Polarisation(inst)
        \/ PlotEnergyLevels(inst)
        \/ PlotCosineAmplitudes(inst)
        \/ PrintDetails(inst)

Spec == Init /\ [][Next]_vars

-----------------------------------------------------------------------------
(* The Hamiltonian assembled at module level.  C and C2 are positive reals *)
(* the program computes from physical constants (lines 145-154); the model *)
(* takes each from 1..MaxWeight.                                           *)

\* sum(tp(x[i], y[i], z[i]) for i in range(3)) - 3*tp(x[2], y[2], z[2]), for the
\* three operand vectors x, y, z of one pair of spins.
Dipolar(x, y, z) ==
    LET t1 == tp(<<x[1], y[1], z[1]>>)
        t2 == tp(<<x[2], y[2], z[2]>>)
        t3 == tp(<<x[3], y[3], z[3]>>)
    IN  MatSub(MatAdd(MatAdd(t1, t2), t3), MatScale(3, t3))

\* Lines 160-163: the muon coupled to each of the two fluorines.
Hamiltonian(c) ==
    LET ones == <<I, I, I>>
        first == Dipolar(S, S, ones)
        second == Dipolar(S, ones, S)
    IN  MatScale(c, MatAdd(first, second))

\* Lines 173-178: the same, plus the coupling of the two fluorines over 8.
HamiltonianCompared(c, c2) ==
    LET ones == <<I, I, I>>
        first == Dipolar(S, S, ones)
        second == Dipolar(S, ones, S)
        partners == Dipolar(ones, S, S)
    IN  MatAdd(MatScale(c, MatAdd(first, second)), MatDiv(MatScale(c2, partners), 8))

\* H = C*(...) (lines 145-149, 160-163)
BuildH ==
    /\ H = <<>>
    /\ \E c \in 1..MaxWeight :
        /\ C' = c
        /\ H' = Hamiltonian(c)
    /\ UNCHANGED <<C2, H2, globals, m, m2, call, err, out, tensor>>

\* The Hamiltonian m2 is made from in comparison mode (lines 150-154, 173-178).
BuildCompared ==
    /\ compare
    /\ H # <<>>
    /\ H2 = <<>>
    /\ \E c2 \in 1..MaxWeight :
        /\ C2' = c2
        /\ H2' = HamiltonianCompared(C, c2)
    /\ UNCHANGED <<C, H, globals, m, m2, call, err, out, tensor>>

NextBuilder == BuildH \/ BuildCompared

SpecBuilder == Init /\ [][NextBuilder]_vars

-----------------------------------------------------------------------------
(* tp, called on its own.                                                  *)

\* Operands of several shapes: 2 x 2 real and complex, 1 x 2 and 2 x 1.
TpOperands ==
    { eye2, pauli_x, pauli_y, RealMat(<<<<1, 2>>>>), RealMat(<<<<3>>, <<-1>>>>) }

RECURSIVE SeqsUpTo(_, _)
\* The sequences over set of length at most len.
SeqsUpTo(set, len) ==
    IF len = 0 THEN { <<>> }
    ELSE SeqsUpTo(set, len - 1)
         \cup { Append(q, x) : q \in { r \in SeqsUpTo(set, len - 1) : Len(r) = len - 1 },
                               x \in set }

\* The operands of the call: none, or up to MaxOperands of them.
InitTensor == ModuleLoaded /\ args \in SeqsUpTo(TpOperands, MaxOperands)

\* result = tp(*args) (lines 9-13); args[0] raises IndexError when there is
\* no operand.
TpCall ==
    /\ call.op = "none"
    /\ call' = [op |-> "tp", inst |-> "none", arg |-> <<>>]
    /\ IF args = <<>>
       THEN err' = "IndexError" /\ result' = <<>>
       ELSE err' = "none" /\ result' = tp(args)
    /\ UNCHANGED <<args, globals, builder, m, m2, out>>

NextTensor == TpCall

SpecTensor == InitTensor /\ [][NextTensor]_vars

-----------------------------------------------------------------------------
(* Properties.                                                             *)

Queries == {"polarisation", "plot_energy_levels", "plot_cosine_amplitudes", "print_details"}

Dim(self) == Len(self.energies)
Indices(self) == (1..Dim(self)) \X (1..Dim(self))

RECURSIVE SumSeq(_)
SumSeq(s) == IF s = <<>> THEN 0 ELSE Head(s) + SumSeq(Tail(s))

\* The sum of all entries of a matrix of integers.
SumEntries(A) == SumSeq(Tuple([i \in 1..Len(A) |-> SumSeq(A[i])]))

\* The sum of the entries of A at the index pairs of the set pairs.
SumOver(A, pairs) ==
    SumSeq(Tuple([i \in 1..Len(A) |->
        SumSeq(Tuple([j \in 1..Len(A[i]) |->
            IF <<i, j>> \in pairs THEN A[i][j] ELSE 0]))]))

RECURSIVE SumValues(_, _)
\* The sum of the values d takes on keys.
SumValues(d, keys) ==
    IF keys = {} THEN 0
    ELSE LET f == CHOOSE g \in keys : TRUE
         IN  d[f] + SumValues(d, keys \ {f})

\* C1: the transition_amplitude_matrix of every constructed Model is symmetric
\* (A[i][j] = A[j][i]) and none of its entries is negative.
AmplitudesSymmetricNonNegative ==
    \A inst \in Instances : Exists(inst) =>
        LET A == Self(inst).transition_amplitude_matrix
        IN  \A i, j \in 1..Len(A) : A[i][j] = A[j][i] /\ A[i][j] >= 0

\* A Model of three spins was just constructed from a Hermitian matrix, and
\* it has a transition between two different eigenstates.
AmplitudesWitness ==
    /\ call.op = "Model" /\ err = "none"
    /\ IsHermitian(call.arg[1])
    /\ Rows(call.arg[1]) = 8 /\ call.arg[2] = 3
    /\ LET A == Self(call.inst).transition_amplitude_matrix
       IN  \E i, j \in 1..8 : i # j /\ A[i][j] > 0

\* C2: constructing a Model from a matrix that is not square or not Hermitian
\* raises, and binds no instance (for a particle count of at least 1).
InvalidHamiltonianRejected ==
    (call.op = "Model" /\ call.arg[2] >= 1 /\ ~IsHermitian(call.arg[1]))
        => (err # "none" /\ ~Exists(call.inst))

\* C3: constructing a Model from a Hermitian matrix whose dimension is not
\* 2**particle_count raises, and binds no instance.
DimensionMismatchRejected ==
    (call.op = "Model" /\ IsHermitian(call.arg[1])
        /\ Rows(call.arg[1]) # Pow2(call.arg[2]))
        => (err # "none" /\ ~Exists(call.inst))

\* C4: at every time 0 of ts, polarisation returns the sum of all entries of
\* the amplitude matrix, the diagonal ones included.
PolarisationAtZeroIsTotal ==
    call.op = "polarisation" =>
        \A x \in 1..Len(call.arg) :
            call.arg[x] = 0 =>
                out[x] = SumEntries(Self(call.inst).transition_amplitude_matrix)

\* polarisation was called on a Model of three spins with diagonal amplitudes,
\* for the times 0 and 1, and returned two different values.
PolarisationAtZeroWitness ==
    /\ call.op = "polarisation" /\ Len(call.arg) >= 2 /\ call.arg[1] = 0
    /\ Dim(Self(call.inst)) = 8
    /\ \E i \in 1..8 : Self(call.inst).transition_amplitude_matrix[i][i] > 0
    /\ out[2] # out[1]

\* The amplitudes of all index pairs whose rounded frequencies are a and b.
PairAmplitude(self, a, b) ==
    SumOver(self.transition_amplitude_matrix,
            { q \in Indices(self) :
                {self.rounded_frequencies[q[1]], self.rounded_frequencies[q[2]]} = {a, b} })

\* C5: every transition pair plot_energy_levels draws has its smaller level
\* first (so never a = b, never a pair and its reverse), and no pair of levels
\* whose amplitudes sum to no more than the threshold 1e-8 is drawn.
TransitionsCanonicalSignificant ==
    call.op = "plot_energy_levels" =>
        LET self == Self(call.inst)
        IN  /\ \A ab \in out.transitions :
                ab[1] < ab[2] /\ <<ab[2], ab[1]>> \notin out.transitions
            /\ \A a, b \in out.frequency_levels :
                ~AboveThreshold(PairAmplitude(self, a, b), self.amplitude_den)
                    => <<a, b>> \notin out.transitions

\* plot_energy_levels drew a transition, and left out a pair of different
\* levels between which there is no amplitude.
TransitionsWitness ==
    /\ call.op = "plot_energy_levels"
    /\ out.transitions # {}
    /\ \E a, b \in out.frequency_levels :
        /\ a < b
        /\ PairAmplitude(Self(call.inst), a, b) = 0
        /\ <<a, b>> \notin out.transitions

\* C6: a query (polarisation, plot_energy_levels, plot_cosine_amplitudes,
\* print_details) changes no field of either instance and none of the module
\* constants I, sigma_x, sigma_z, S.
QueriesLeaveModelUnchanged ==
    [][call'.op \in Queries =>
        /\ m' = m /\ m2' = m2
        /\ I' = I /\ sigma_x' = sigma_x /\ sigma_z' = sigma_z /\ S' = S]_vars

\* A query was made on the second of two different instances.
QueriesWitness ==
    /\ call.op \in Queries /\ call.inst = "m2"
    /\ m # <<>> /\ m2 # <<>> /\ m[1] # m2[1]

\* h is 8 x 8 and equals its conjugate transpose.
Hermitian8(h) ==
    /\ Rows(h) = 8
    /\ \A i \in 1..8 : Len(h[i]) = 8
    /\ h = adj(h)

\* C7: the Hamiltonian built from C, and the one built from C and C2 with the
\* partner-partner term over 8, are 8 x 8 and equal their conjugate transpose.
BuiltHamiltoniansHermitian ==
    /\ H # <<>> => Hermitian8(H)
    /\ H2 # <<>> => Hermitian8(H2)

\* Both Hamiltonians are built, they differ, and H has an entry off the diagonal.
BuiltHamiltoniansWitness ==
    /\ H # <<>> /\ H2 # <<>> /\ H2 # H
    /\ \E i, j \in 1..8 : i # j /\ H[i][j] # CZero

\* C8: the labels print_details prints for an instance of three spins are the
\* expectation values of J2 and Jz in that instance's own eigenvectors.
LabelsFromOwnEigenvectors ==
    (call.op = "print_details" /\ Dim(Self(call.inst)) = 8) =>
        /\ err = "none"
        /\ \A i \in 1..8 :
            /\ out.labels[i].jj1 = Expectation(Self(call.inst), i, J2Set, hbar * hbar)
            /\ out.labels[i].jz = Expectation(Self(call.inst), i, JzSet, hbar)

RECURSIVE LeftToRight(_)
\* The Kronecker product of one or more operands, grouped from the left.
LeftToRight(operands) ==
    IF Len(operands) = 1 THEN operands[1]
    ELSE kron(LeftToRight(SubSeq(operands, 1, Len(operands) - 1)), operands[Len(operands)])

RECURSIVE RowsProduct(_)
RowsProduct(operands) ==
    IF operands = <<>> THEN 1 ELSE Rows(Head(operands)) * RowsProduct(Tail(operands))

RECURSIVE ColsProduct(_)
ColsProduct(operands) ==
    IF operands = <<>> THEN 1 ELSE Cols(Head(operands)) * ColsProduct(Tail(operands))

\* C9: tp of no operand raises; tp of operands is their Kronecker product from
\* left to right: the operand itself when there is one, with the product of
\* the operands' rows and of their columns, and the same however the operands
\* are grouped.
TensorProductLaw ==
    call.op = "tp" =>
        IF args = <<>> THEN err = "IndexError"
        ELSE /\ err = "none"
             /\ result = LeftToRight(args)
             /\ Len(args) = 1 => result = args[1]
             /\ Rows(result) = RowsProduct(args)
             /\ \A r \in 1..Rows(result) : Len(result[r]) = ColsProduct(args)
             /\ \A p \in 1..(Len(args) - 1) :
                    result = kron(LeftToRight(SubSeq(args, 1, p)),
                                  LeftToRight(SubSeq(args, p + 1, Len(args))))

\* tp was called on three operands, not all of them square, and swapping the
\* first two changes the result.
TensorProductWitness ==
    /\ call.op = "tp" /\ Len(args) = 3
    /\ args[1] # args[2]
    /\ Rows(result) # Cols(result)
    /\ result # LeftToRight(<<args[2], args[1], args[3]>>)

\* The key plot_cosine_amplitudes files the pair (i, j) under.
HistogramKey(self, i, j) == Round(FrequencyNum(self, i, j), hbar)

\* C10: the dictionary of plot_cosine_amplitudes has one key per rounded
\* frequency round(|E[i] - E[j]| / hbar), its value is the sum of A[i][j] over
\* all ordered pairs (i, j) with that key, and its values sum to the sum of
\* all entries of A.
HistogramSumsAmplitudes ==
    call.op = "plot_cosine_amplitudes" =>
        LET self == Self(call.inst)
            A == self.transition_amplitude_matrix
        IN  /\ DOMAIN out = { HistogramKey(self, q[1], q[2]) : q \in Indices(self) }
            /\ \A f \in DOMAIN out :
                out[f] = SumOver(A, { q \in Indices(self) : HistogramKey(self, q[1], q[2]) = f })
            /\ SumValues(out, DOMAIN out) = SumEntries(A)

\* plot_cosine_amplitudes was called on a Model of three spins, found several
\* frequencies, and one of them is shared by several pairs with an amplitude.
HistogramWitness ==
    /\ call.op = "plot_cosine_amplitudes"
    /\ Dim(Self(call.inst)) = 8
    /\ Cardinality(DOMAIN out) >= 2
    /\ \E f \in DOMAIN out :
        Cardinality({ q \in Indices(Self(call.inst)) :
                        /\ HistogramKey(Self(call.inst), q[1], q[2]) = f
                        /\ Self(call.inst).transition_amplitude_matrix[q[1]][q[2]] > 0 }) >= 2

====
